---- MODULE Spec2Model ----
(***************************************************************************)
(* Model of the job tracker's extraction pipeline: the React handler       *)
(* handleExtractDetails with the state it reads and writes, the controls   *)
(* of the extraction modal and the job form, and the /proxy endpoint of    *)
(* the backend.                                                            *)
(*                                                                         *)
(* Texts are run-length encoded: a text is a sequence of runs              *)
(* [c |-> character, n |-> repetitions] in which neighbouring runs have    *)
(* different characters.  The encoding keeps the 28000 character cap of    *)
(* the handler at its real value.                                          *)
(***************************************************************************)
EXTENDS Integers, Sequences, FiniteSets, TLC

(***************************************************************************)
(* Strings                                                                 *)
(***************************************************************************)

\* the empty string ''
EmptyStr == <<>>

\* n repetitions of the character c
Rep(c, n) == IF n = 0 THEN <<>> ELSE << [c |-> c, n |-> n] >>

\* string concatenation (s + t), joining the runs that meet
Concat(s, t) ==
  IF s = <<>> THEN t
  ELSE IF t = <<>> THEN s
  ELSE IF s[Len(s)].c = t[1].c
       THEN SubSeq(s, 1, Len(s) - 1)
            \o << [c |-> t[1].c, n |-> s[Len(s)].n + t[1].n] >>
            \o Tail(t)
       ELSE s \o t

\* s.length
RECURSIVE length(_)
length(s) == IF s = <<>> THEN 0 ELSE s[1].n + length(Tail(s))

\* the characters the regular expression class \s and trim() treat as white space
IsWhitespace(c) == c \in {" ", "\n"}

RECURSIVE trimStart(_)
trimStart(s) ==
  IF s # <<>> /\ IsWhitespace(s[1].c) THEN trimStart(Tail(s)) ELSE s

RECURSIVE trimEnd(_)
trimEnd(s) ==
  IF s # <<>> /\ IsWhitespace(s[Len(s)].c)
  THEN trimEnd(SubSeq(s, 1, Len(s) - 1))
  ELSE s

\* String.prototype.trim
trim(s) == trimEnd(trimStart(s))

\* the prefix s.substring(0, k)
RECURSIVE substring(_, _)
substring(s, k) ==
  IF s = <<>> \/ k <= 0 THEN <<>>
  ELSE IF s[1].n >= k THEN << [c |-> s[1].c, n |-> k] >>
  ELSE << s[1] >> \o substring(Tail(s), k - s[1].n)

\* the number of leading runs of s that are white space
RECURSIVE WsRuns(_)
WsRuns(s) ==
  IF s # <<>> /\ IsWhitespace(s[1].c) THEN 1 + WsRuns(Tail(s)) ELSE 0

\* s.replace(/\s\s+/g, ' '): every maximal stretch of two or more white
\* space characters becomes one space; a single white space character stays
RECURSIVE collapseWhitespace(_)
collapseWhitespace(s) ==
  IF s = <<>> THEN <<>>
  ELSE IF ~IsWhitespace(s[1].c)
       THEN << s[1] >> \o collapseWhitespace(Tail(s))
       ELSE LET k     == WsRuns(s)
                block == SubSeq(s, 1, k)
                rest  == SubSeq(s, k + 1, Len(s))
            IN  (IF length(block) >= 2 THEN Rep(" ", 1) ELSE block)
                \o collapseWhitespace(rest)

\* encodeURIComponent: letters are kept, white space is percent-encoded
EncodeChar(c) == CASE c = " "  -> "%20"
                   [] c = "\n" -> "%0A"
                   [] OTHER    -> c

encodeURIComponent(s) == [i \in 1..Len(s) |-> [c |-> EncodeChar(s[i].c), n |-> s[i].n]]

\* the query-string decoding express applies to req.query.url
DecodeChar(c) == CASE c = "%20" -> " "
                   [] c = "%0A" -> "\n"
                   [] OTHER     -> c

decodeQuery(s) == [i \in 1..Len(s) |-> [c |-> DecodeChar(s[i].c), n |-> s[i].n]]


(***************************************************************************)
(* Parsed documents                                                        *)
(*                                                                         *)
(* A fetched body is modelled by the document DOMParser builds from it:    *)
(* the sequence of the children of <body> in document order, each with     *)
(* the selector class it falls in and its text.  A document made by        *)
(* DOMParser is not rendered, so innerText is the concatenated text.       *)
(***************************************************************************)

\* 'script, style, nav, footer, header, aside, .sidebar, #sidebar, link[rel="stylesheet"]'
RemovedTags == {"script", "style", "nav", "footer", "header", "aside",
                ".sidebar", "#sidebar", "link"}

\* 'main, article, .main-content, #main, [role="main"], .job-description, #job-details'
LandmarkTags == {"main", "article", ".main-content", "#main", "[role=main]",
                 ".job-description", "#job-details"}

NoElement == [tag |-> "null", text |-> EmptyStr]

\* querySelectorAll(...).forEach(el => el.remove())
removeNonContent(doc) == SelectSeq(doc, LAMBDA el : el.tag \notin RemovedTags)

\* the place of a landmark selector in the selector list of line 243
SelectorRank(tag) ==
  CASE tag = "main"             -> 1
    [] tag = "article"          -> 2
    [] tag = ".main-content"    -> 3
    [] tag = "#main"            -> 4
    [] tag = "[role=main]"      -> 5
    [] tag = ".job-description" -> 6
    [] tag = "#job-details"     -> 7
    [] OTHER                    -> 8

\* a querySelector that tries the selectors of the list one after the other
querySelector_bySelectorOrder(doc) ==
  LET hits == SelectSeq(doc, LAMBDA el : el.tag \in LandmarkTags)
  IN  IF hits = <<>> THEN [tag |-> "null", text |-> EmptyStr]
      ELSE LET best == CHOOSE i \in 1..Len(hits) :
                         \A j \in 1..Len(hits) :
                            \/ SelectorRank(hits[i].tag) < SelectorRank(hits[j].tag)
                            \/ SelectorRank(hits[i].tag) = SelectorRank(hits[j].tag) /\ i <= j
           IN  hits[best]

\* querySelector with a selector list: the first element in document order
\* that matches any selector of the list, null when none does
querySelector(doc) ==
  LET hits == SelectSeq(doc, LAMBDA el : el.tag \in LandmarkTags)
  IN  IF hits = <<>> THEN NoElement ELSE hits[1]

\* docHtml.body.innerText
RECURSIVE bodyInnerText(_)
bodyInnerText(doc) ==
  IF doc = <<>> THEN EmptyStr ELSE Concat(doc[1].text, bodyInnerText(Tail(doc)))

\* the threshold under which the text of the landmark is given up
MinContentLength == 50

\* lines 243-249 with the length test of line 246 on the text as it is
selectContent_untrimmed(doc) ==
  LET mainContentElement == querySelector(doc)
      first == IF mainContentElement # NoElement
               THEN mainContentElement.text
               ELSE bodyInnerText(doc)
  IN  IF first = EmptyStr \/ length(first) < MinContentLength
      THEN bodyInnerText(doc)
      ELSE first

\* lines 243-249: the text of the landmark, or of the whole body when there
\* is no landmark or its text is empty or shorter than the threshold
selectContent(doc) ==
  LET mainContentElement == querySelector(doc)
      first == IF mainContentElement # NoElement
               THEN mainContentElement.text
               ELSE bodyInnerText(doc)
  IN  IF first = EmptyStr \/ length(trim(first)) < MinContentLength
      THEN bodyInnerText(doc)
      ELSE first

\* line 251 without the replace
normalizeFetched_trimOnly(t) == trim(t)

\* line 251 without the trim
normalizeFetched_collapseOnly(t) == collapseWhitespace(t)

\* line 251
normalizeFetched(t) == trim(collapseWhitespace(t))

\* lines 238-251: from the fetched body to the text to process
textFromHtml(htmlContent) ==
  normalizeFetched(selectContent(removeNonContent(htmlContent)))

(***************************************************************************)
(* The backend: GET /proxy                                                 *)
(***************************************************************************)

Ok(status) == status >= 200 /\ status <= 299

\* the JSON error body of the endpoint; "" stands for a field that is absent
JsonError(error, details) == [json |-> TRUE, error |-> error, details |-> details]

\* a body that is not JSON: a page or plain text
TextBody(doc) == [json |-> FALSE, doc |-> doc]

Response(status, statusText, body) ==
  [kind |-> "response", status |-> status, statusText |-> statusText, body |-> body]

\* a fetch that rejects before any response
Rejected(message) == [kind |-> "rejected", message |-> message]

\* the body of an upstream response whose read (response.text()) throws
Unreadable(message) == [json |-> FALSE, unreadable |-> message]

Readable(body) == "unreadable" \notin DOMAIN body

\* lines 31-33: the header sent upstream
BrowserUserAgent ==
  "Mozilla/5.0 (Windows NT 10.0; Win64; x64) AppleWebKit/537.36 (KHTML, like Gecko) Chrome/58.0.3029.110 Safari/537.36"

\* lines 29-34: the fetch the endpoint issues
upstreamRequest(urlToFetch) == [url |-> urlToFetch, userAgent |-> BrowserUserAgent]

\* lines 20-29: the request arrives; it is answered at once or the
\* upstream fetch is issued. The empty string stands for both values of
\* req.query.url that line 22 takes for missing: undefined and ''
proxyReceive(urlToFetch) ==
  IF urlToFetch = EmptyStr
  THEN [fetches |-> <<>>,
        sent |-> << Response(400, "Bad Request",
                             JsonError("A \"url\" query parameter is required.", "")) >>]
  ELSE [fetches |-> << upstreamRequest(urlToFetch) >>, sent |-> <<>>]

\* lines 29-47 without the test of lines 37-39: whatever the upstream
\* answers is sent on
proxySettle_passThrough(upstream) ==
  IF upstream.kind = "rejected"
  THEN Response(500, "Internal Server Error",
                JsonError("Failed to fetch the provided URL.", upstream.message))
  ELSE IF ~Readable(upstream.body)
  THEN Response(500, "Internal Server Error",
                JsonError("Failed to fetch the provided URL.", upstream.body.unreadable))
  ELSE Response(200, "OK", upstream.body)

\* lines 29-47: the upstream fetch settles and the endpoint answers
proxySettle(upstream) ==
  IF upstream.kind = "rejected"
  THEN Response(500, "Internal Server Error",
                JsonError("Failed to fetch the provided URL.", upstream.message))
  ELSE IF ~Ok(upstream.status)
  THEN Response(500, "Internal Server Error",
                JsonError("Failed to fetch the provided URL.",
                          "Failed to fetch: " \o ToString(upstream.status)
                            \o " " \o upstream.statusText))
  ELSE IF ~Readable(upstream.body)
  THEN Response(500, "Internal Server Error",
                JsonError("Failed to fetch the provided URL.", upstream.body.unreadable))
  ELSE Response(200, "OK", upstream.body)

\* app.get('/proxy'): urlToFetch is req.query.url, upstream is what the
\* fetch of that URL comes to
ProxyEndpoint(urlToFetch, upstream) ==
  IF proxyReceive(urlToFetch).sent # <<>>
  THEN proxyReceive(urlToFetch).sent[1]
  ELSE proxySettle(upstream)

(***************************************************************************)
(* JavaScript values of the extraction response                            *)
(***************************************************************************)

Undefined   == [t |-> "undefined"]
Null        == [t |-> "null"]
JsString(s) == [t |-> "string", s |-> s]
JsNumber(n) == [t |-> "number", n |-> n]
JsArray     == [t |-> "array"]
SyntaxError == [t |-> "SyntaxError"]

\* the properties the handler reads from the extracted data
FieldNames == {"companyName", "role", "location", "summary"}

\* an object, given by the value of each property (Undefined when absent)
JsObject(companyName, role, location, summary) ==
  [t |-> "object",
   props |-> [companyName |-> companyName, role |-> role,
              location |-> location, summary |-> summary]]

\* the texts the extraction service is taken to generate
TextInvalid  == "{invalid json"
TextNull     == "null"
TextNumber   == "42"
TextString   == "\"Acme Corp\""
TextArray    == "[]"
TextEmptyObj == "{}"
TextNoRole   == "{\"companyName\":\"Acme Corp\"}"
TextMinimal  == "{\"companyName\":\"Acme Corp\",\"role\":\"Senior Engineer\"}"
TextNullLoc  == "{\"companyName\":\"\",\"role\":\"Senior Engineer\",\"location\":null,\"summary\":\"\"}"
TextFull     == "{\"companyName\":\"Acme Corp\",\"role\":\"Senior Engineer\",\"location\":\"Remote\",\"summary\":\"Build distributed systems.\"}"

EmbeddedTexts == {TextInvalid, TextNull, TextNumber, TextString, TextArray,
                  TextEmptyObj, TextNoRole, TextMinimal, TextNullLoc, TextFull}

\* a parser that reads text it cannot parse as the empty object
JSONParse_lenient(text) ==
  CASE text = TextNull     -> Null
    [] text = TextNumber   -> JsNumber(42)
    [] text = TextString   -> JsString("Acme Corp")
    [] text = TextArray    -> JsArray
    [] text = TextNoRole   -> JsObject(JsString("Acme Corp"), Undefined, Undefined, Undefined)
    [] text = TextMinimal  -> JsObject(JsString("Acme Corp"), JsString("Senior Engineer"),
                                       Undefined, Undefined)
    [] text = TextNullLoc  -> JsObject(JsString(""), JsString("Senior Engineer"),
                                       Null, JsString(""))
    [] text = TextFull     -> JsObject(JsString("Acme Corp"), JsString("Senior Engineer"),
                                       JsString("Remote"),
                                       JsString("Build distributed systems."))
    [] OTHER               -> JsObject(Undefined, Undefined, Undefined, Undefined)

\* JSON.parse on the texts above; SyntaxError when it throws
JSONParse(text) ==
  CASE text = TextNull     -> Null
    [] text = TextNumber   -> JsNumber(42)
    [] text = TextString   -> JsString("Acme Corp")
    [] text = TextArray    -> JsArray
    [] text = TextEmptyObj -> JsObject(Undefined, Undefined, Undefined, Undefined)
    [] text = TextNoRole   -> JsObject(JsString("Acme Corp"), Undefined, Undefined, Undefined)
    [] text = TextMinimal  -> JsObject(JsString("Acme Corp"), JsString("Senior Engineer"),
                                       Undefined, Undefined)
    [] text = TextNullLoc  -> JsObject(JsString(""), JsString("Senior Engineer"),
                                       Null, JsString(""))
    [] text = TextFull     -> JsObject(JsString("Acme Corp"), JsString("Senior Engineer"),
                                       JsString("Remote"),
                                       JsString("Build distributed systems."))
    [] OTHER               -> SyntaxError

\* value.name for a value that is neither null nor undefined
GetProp(value, name) ==
  IF value.t = "object" THEN value.props[name] ELSE Undefined

Truthy(v) ==
  CASE v.t \in {"undefined", "null"} -> FALSE
    [] v.t = "string"                -> v.s # ""
    [] v.t = "number"                -> v.n # 0
    [] OTHER                         -> TRUE

\* the value itself, without the default
OrEmpty_keep(v) == v

\* v || ''
OrEmpty(v) == IF Truthy(v) THEN v ELSE JsString("")

\* JobStatus
JobStatus == [APPLIED |-> "Applied", INTERVIEWING |-> "Interviewing",
              OFFER_RECEIVED |-> "Offer Received", REJECTED |-> "Rejected",
              WAITING_REFERRAL |-> "Waiting (Referral)",
              SAVED |-> "Saved (Not Applied)", WITHDRAWN |-> "Withdrawn"]

\* new Date().toISOString().split('T')[0]
Today == "today"

\* newJobData with the status the empty form starts from
newJobData_statusApplied(extractedData, url) ==
  [companyName     |-> OrEmpty(GetProp(extractedData, "companyName")),
   role            |-> OrEmpty(GetProp(extractedData, "role")),
   location        |-> OrEmpty(GetProp(extractedData, "location")),
   notes           |-> OrEmpty(GetProp(extractedData, "summary")),
   dateApplied     |-> Today,
   status          |-> JobStatus.APPLIED,
   link            |-> trim(url),
   platformPosted  |-> "",
   referralOptions |-> "",
   personPosted    |-> ""]

\* newJobData that keeps the URL as typed
newJobData_linkAsTyped(extractedData, url) ==
  [companyName     |-> OrEmpty(GetProp(extractedData, "companyName")),
   role            |-> OrEmpty(GetProp(extractedData, "role")),
   location        |-> OrEmpty(GetProp(extractedData, "location")),
   notes           |-> OrEmpty(GetProp(extractedData, "summary")),
   dateApplied     |-> Today,
   status          |-> JobStatus.SAVED,
   link            |-> url,
   platformPosted  |-> "",
   referralOptions |-> "",
   personPosted    |-> ""]

\* lines 323-334
newJobData(extractedData, url) ==
  [companyName     |-> OrEmpty(GetProp(extractedData, "companyName")),
   role            |-> OrEmpty(GetProp(extractedData, "role")),
   location        |-> OrEmpty(GetProp(extractedData, "location")),
   notes           |-> OrEmpty(GetProp(extractedData, "summary")),
   dateApplied     |-> Today,
   status          |-> JobStatus.SAVED,
   link            |-> trim(url),
   platformPosted  |-> "",
   referralOptions |-> "",
   personPosted    |-> ""]

(***************************************************************************)
(* The response envelope of the extraction service                         *)
(***************************************************************************)

\* a candidate with parts[0].text = text; "" is also what a candidate
\* without content or without a text part comes to under ?.
Candidate(text) == [text |-> text]
NoTextPart      == ""

\* a JSON body of the service: candidates is a sequence, or absent;
\* errorMessage is error.message of an error body ("" when absent)
Envelope(hasCandidates, candidates) ==
  [json |-> TRUE, isNull |-> FALSE, hasCandidates |-> hasCandidates,
   candidates |-> candidates, errorMessage |-> ""]
ErrorBody(errorMessage) ==
  [json |-> TRUE, isNull |-> FALSE, hasCandidates |-> FALSE,
   candidates |-> <<>>, errorMessage |-> errorMessage]
NullBody ==
  [json |-> TRUE, isNull |-> TRUE, hasCandidates |-> FALSE,
   candidates |-> <<>>, errorMessage |-> ""]
NotJsonBody == [json |-> FALSE]

\* result.candidates && result.candidates[0]?.content?.parts?.[0]?.text
\* for a result that is not null
candidateText(result) ==
  IF result.hasCandidates /\ result.candidates # <<>>
  THEN result.candidates[1].text
  ELSE NoTextPart

(***************************************************************************)
(* handleExtractDetails, as the steps between its awaits                   *)
(***************************************************************************)

\* line 270: the longest text handed to the extraction service
Cap == 28000

\* truncate with the bound off by one
truncate_offByOne(t) == IF length(t) > Cap + 1 THEN substring(t, Cap + 1) ELSE t

\* lines 270-273
truncate(t) == IF length(t) > Cap THEN substring(t, Cap) ELSE t

\* the request of line 227; url is the value of the query parameter
proxyRequest(jobPostUrl) == [to |-> "proxy", url |-> encodeURIComponent(jobPostUrl)]

\* the request of lines 275-305: the prompt embeds the text, the schema
\* declares the required properties
extractionRequest(text) ==
  [to |-> "ai", text |-> text, required |-> {"companyName", "role"}]

NoInputMsg == "Please provide a Job Posting URL or paste the Job Description text."
EmptyContentMsg == "Could not extract meaningful text content from the URL after parsing."
InvalidJsonMsg == "AI returned invalid JSON. Please try again or check the extracted text if it was from a URL."
MalformedMsg == "Could not extract details: AI response format was unexpected."
\* the message of the SyntaxError response.json() throws on a body that is not JSON
NotJsonMsg == "Unexpected token < in JSON at position 0"
\* the message of the TypeError a property read of null throws
NullReadMsg == "Cannot read properties of null"

\* line 235
ProxyHttpMsg(errorDetails, status) ==
  "Failed to fetch URL via proxy: " \o errorDetails
    \o " (Status: " \o ToString(status) \o ")"

\* line 258
UrlErrorMsg(message) ==
  "Error processing URL: " \o message \o ". Try pasting text or check the URL/proxy."

\* line 309
AIRequestFailedMsg(detail, status) ==
  "AI API request failed: " \o detail \o " (Status: " \o ToString(status) \o ")"

\* line 347
AIErrorMsg(message) == "AI Extraction Error: " \o message \o "."

\* a || b for strings
OrStr(a, b) == IF a # "" THEN a ELSE b

\* lines 230-234 reading the error field before the details field
errorDetails_errorFirst(response) ==
  IF response.body.json
  THEN OrStr(response.body.error, OrStr(response.body.details, response.statusText))
  ELSE response.statusText

\* lines 230-234
errorDetails(response) ==
  IF response.body.json
  THEN OrStr(response.body.details, OrStr(response.body.error, response.statusText))
  ELSE response.statusText

NoJob == [t |-> "null"]

\* what a step of the handler comes to: where the handler is next, the
\* error message it sets ("" when none), the text to process, the
\* requests it issues and the draft it hands to the form
Step(pc, error, text, calls, draft) ==
  [pc |-> pc, error |-> error, text |-> text, calls |-> calls, draft |-> draft]

Failed(error) == Step("done", error, EmptyStr, <<>>, NoJob)

\* chooseSource with the two tests in the other order
chooseSource_textFirst(jobPostUrl, jobDescriptionText) ==
  IF trim(jobDescriptionText) # EmptyStr THEN "text"
  ELSE IF trim(jobPostUrl) # EmptyStr THEN "url"
  ELSE "none"

\* chooseSource testing the pasted text without trim()
chooseSource_untrimmed(jobPostUrl, jobDescriptionText) ==
  IF trim(jobPostUrl) # EmptyStr THEN "url"
  ELSE IF jobDescriptionText # EmptyStr THEN "text"
  ELSE "none"

\* lines 224, 262, 264: the source of the text
chooseSource(jobPostUrl, jobDescriptionText) ==
  IF trim(jobPostUrl) # EmptyStr THEN "url"
  ELSE IF trim(jobDescriptionText) # EmptyStr THEN "text"
  ELSE "none"

\* lines 216-227 and 262-305: from the call to the first await
beginExtract(jobPostUrl, jobDescriptionText) ==
  LET source == chooseSource(jobPostUrl, jobDescriptionText)
      text   == truncate(trim(jobDescriptionText))
  IN  CASE source = "url"  ->
             Step("proxy", "", EmptyStr, << proxyRequest(jobPostUrl) >>, NoJob)
        [] source = "text" ->
             Step("ai", "", text, << extractionRequest(text) >>, NoJob)
        [] OTHER           -> Failed(NoInputMsg)

\* afterProxy whose catch block sets the message and does not return
afterProxy_noReturn(response) ==
  IF response.kind = "rejected"
  THEN Step("ai", UrlErrorMsg(response.message), EmptyStr,
            << extractionRequest(EmptyStr) >>, NoJob)
  ELSE IF ~Ok(response.status)
  THEN Step("ai", UrlErrorMsg(ProxyHttpMsg(errorDetails(response), response.status)),
            EmptyStr, << extractionRequest(EmptyStr) >>, NoJob)
  ELSE LET textToProcess == textFromHtml(response.body.doc)
       IN  IF trim(textToProcess) = EmptyStr
           THEN Failed(UrlErrorMsg(EmptyContentMsg))
           ELSE Step("ai", "", truncate(textToProcess),
                     << extractionRequest(truncate(textToProcess)) >>, NoJob)

\* afterProxy without the test of line 253
afterProxy_noEmptyCheck(response) ==
  IF response.kind = "rejected"
  THEN Failed(UrlErrorMsg(response.message))
  ELSE IF ~Ok(response.status)
  THEN Failed(UrlErrorMsg(ProxyHttpMsg(errorDetails(response), response.status)))
  ELSE LET textToProcess == textFromHtml(response.body.doc)
       IN  Step("ai", "", truncate(textToProcess),
                << extractionRequest(truncate(textToProcess)) >>, NoJob)

\* lines 229-261 and 270-305: from the proxy's answer to the second await
afterProxy(response) ==
  IF response.kind = "rejected"
  THEN Failed(UrlErrorMsg(response.message))
  ELSE IF ~Ok(response.status)
  THEN Failed(UrlErrorMsg(ProxyHttpMsg(errorDetails(response), response.status)))
  ELSE LET textToProcess == textFromHtml(response.body.doc)
       IN  IF trim(textToProcess) = EmptyStr
           THEN Failed(UrlErrorMsg(EmptyContentMsg))
           ELSE Step("ai", "", truncate(textToProcess),
                     << extractionRequest(truncate(textToProcess)) >>, NoJob)

\* afterResult reading the text part without the test of line 313, so that
\* a missing text part fails in JSON.parse
afterResult_malformedThrows(result, jobPostUrl, text) ==
  IF result.isNull
  THEN Failed(AIErrorMsg(NullReadMsg))
  ELSE IF candidateText(result) = NoTextPart
  THEN Failed(AIErrorMsg(InvalidJsonMsg))
  ELSE LET extractedData == JSONParse(candidateText(result))
       IN  IF extractedData = SyntaxError
           THEN Failed(AIErrorMsg(InvalidJsonMsg))
           ELSE IF extractedData = Null
           THEN Failed(AIErrorMsg(NullReadMsg))
           ELSE Step("done", "", text, <<>>, newJobData(extractedData, jobPostUrl))

\* afterResult whose else branch logs and sets no message
afterResult_silent(result, jobPostUrl, text) ==
  IF result.isNull
  THEN Failed(AIErrorMsg(NullReadMsg))
  ELSE IF candidateText(result) = NoTextPart
  THEN Failed("")
  ELSE LET extractedData == JSONParse(candidateText(result))
       IN  IF extractedData = SyntaxError
           THEN Failed(AIErrorMsg(InvalidJsonMsg))
           ELSE IF extractedData = Null
           THEN Failed(AIErrorMsg(NullReadMsg))
           ELSE Step("done", "", text, <<>>, newJobData(extractedData, jobPostUrl))

\* lines 313-344: the result of a success status
afterResult(result, jobPostUrl, text) ==
  IF result.isNull
  THEN Failed(AIErrorMsg(NullReadMsg))
  ELSE IF candidateText(result) = NoTextPart
  THEN Failed(MalformedMsg)
  ELSE LET extractedData == JSONParse(candidateText(result))
       IN  IF extractedData = SyntaxError
           THEN Failed(AIErrorMsg(InvalidJsonMsg))
           ELSE IF extractedData = Null
           THEN Failed(AIErrorMsg(NullReadMsg))
           ELSE Step("done", "", text, <<>>, newJobData(extractedData, jobPostUrl))

\* afterExtraction that sends the request again when the fetch rejects
afterExtraction_retry(aiResponse, jobPostUrl, text) ==
  IF aiResponse.kind = "rejected"
  THEN Step("ai", "", text, << extractionRequest(text) >>, NoJob)
  ELSE IF ~aiResponse.body.json
  THEN Failed(AIErrorMsg(NotJsonMsg))
  ELSE IF ~Ok(aiResponse.status)
  THEN Failed(AIErrorMsg(AIRequestFailedMsg(
                OrStr(aiResponse.body.errorMessage, aiResponse.statusText),
                aiResponse.status)))
  ELSE afterResult(aiResponse.body, jobPostUrl, text)

\* lines 306-350: from the service's answer to the end
afterExtraction(aiResponse, jobPostUrl, text) ==
  IF aiResponse.kind = "rejected"
  THEN Failed(AIErrorMsg(aiResponse.message))
  ELSE IF ~aiResponse.body.json
  THEN Failed(AIErrorMsg(NotJsonMsg))
  ELSE IF ~Ok(aiResponse.status)
  THEN Failed(AIErrorMsg(AIRequestFailedMsg(
                OrStr(aiResponse.body.errorMessage, aiResponse.statusText),
                aiResponse.status)))
  ELSE afterResult(aiResponse.body, jobPostUrl, text)

(***************************************************************************)
(* Inputs                                                                  *)
(***************************************************************************)

\* the longest URL typed, in runs
MaxUrlRuns == 2

\* the URLs typed into the modal: the letter u and spaces, up to MaxUrlRuns runs
UrlStrings ==
  { s \in UNION { [1..k -> {Rep("u", 1)[1], Rep(" ", 1)[1]}] : k \in 0..MaxUrlRuns } :
      \A i \in 1..(Len(s) - 1) : s[i].c # s[i + 1].c }

Posting == Concat(Rep("a", 20000), Rep("b", 20000))

\* the texts pasted into the modal
PastedTexts ==
  { EmptyStr,
    Rep(" ", 1),
    Concat(Rep("\n", 1), Rep(" ", 2)),
    Rep("a", 1),
    Rep("b", 64),
    Concat(Rep(" ", 1), Concat(Rep("a", 3), Concat(Rep(" ", 2), Concat(Rep("b", 3), Rep("\n", 1))))),
    Rep("a", Cap),
    Rep("a", Cap + 1),
    Concat(Rep("a", Cap - 1), Concat(Rep(" ", 1), Rep("b", 5))),
    Posting }

El(tag, text) == [tag |-> tag, text |-> text]

\* the documents the fetched pages parse to
Docs ==
  { <<>>,
    << El("p", Concat(Rep(" ", 2), Rep("\n", 1))) >>,
    << El("script", Rep("a", 60)) >>,
    << El("p", Rep("a", 1)) >>,
    << El("main", Rep("a", 60)) >>,
    << El("main", Rep("a", 49)), El("p", Rep("b", 60)) >>,
    << El("main", Concat(Rep(" ", 60), Rep("a", 10))), El("p", Rep("b", 2)) >>,
    << El("nav", Rep("b", 70)), El("p", Concat(Rep("a", 3), Concat(Rep(" ", 2), Rep("b", 3)))) >>,
    << El("p", Concat(Rep("a", 3), Concat(Rep("\n", 1), Rep("b", 3)))) >>,
    << El("article", Rep("a", 60)), El("main", Rep("b", 60)) >>,
    << El("header", Rep("b", 5)), El(".job-description", Concat(Rep(" ", 1), Rep("a", 50))) >>,
    << El("main", Posting) >>,
    << El("p", Concat(Rep("a", Cap - 1), Concat(Rep(" ", 3), Rep("b", 5)))) >> }

\* what the fetch of the posting comes to at the backend
Upstreams ==
  { Response(200, "OK", TextBody(d)) : d \in Docs }
  \cup { Response(404, "Not Found", TextBody(<< El("p", Rep("b", 9)) >>)),
         Response(503, "Service Unavailable", JsonError("busy", "")),
         Rejected("request to the target failed") }

\* what the fetch of line 227 comes to: an answer of the endpoint, an
\* answer of whatever else serves the backend URL, or no answer
ProxyOutcomes(request) ==
  { ProxyEndpoint(decodeQuery(request.url), u) : u \in Upstreams }
  \cup { Rejected("Failed to fetch"),
         Response(404, "Not Found", TextBody(<< El("p", Rep("b", 9)) >>)),
         Response(502, "Bad Gateway", JsonError("", "")),
         Response(503, "Service Unavailable", JsonError("Backend asleep", "")) }

\* what the fetch of line 301 comes to
AIOutcomes ==
  { Rejected("Failed to fetch"),
    Response(500, "Internal Server Error", ErrorBody("quota exceeded")),
    Response(403, "Forbidden", ErrorBody("")),
    Response(400, "Bad Request", NullBody),
    Response(429, "Too Many Requests", NotJsonBody),
    Response(200, "OK", NotJsonBody),
    Response(200, "OK", NullBody),
    Response(200, "OK", ErrorBody("")),
    Response(200, "OK", Envelope(TRUE, <<>>)),
    Response(200, "OK", Envelope(TRUE, << Candidate(NoTextPart) >>)),
    Response(200, "OK", Envelope(TRUE, << Candidate(TextFull), Candidate(TextInvalid) >>)) }
  \cup { Response(200, "OK", Envelope(TRUE, << Candidate(t) >>)) : t \in EmbeddedTexts }

\* a job of the list, opened for editing
StoredJob == [id |-> "job1", companyName |-> JsString("Initech"),
              role |-> JsString("Analyst"), status |-> JobStatus.APPLIED]

(***************************************************************************)
(* State                                                                   *)
(***************************************************************************)

VARIABLES
  showForm,             \* useState(false)
  currentJob,           \* useState(null)
  showExtractionModal,  \* useState(false)
  jobDescriptionText,   \* useState('')
  jobPostUrl,           \* useState('')
  isExtracting,         \* useState(false)
  extractionError,      \* useState('')
  pc,                   \* where handleExtractDetails is: "idle", at the await
                        \* of the "proxy" fetch, at the await of the "ai"
                        \* fetch, or "done" (returned, no event handled since)
  closure,              \* the jobPostUrl and jobDescriptionText the running handler sees
  textToProcess,        \* the local of the handler
  response,             \* the local of the handler: the proxy's answer
  aiResponse,           \* the local of the handler: the service's answer
  fetchLog,             \* the requests the running handler has issued, in order
  server                \* the backend: the request of /proxy it is handling

vars == << showForm, currentJob, showExtractionModal, jobDescriptionText,
           jobPostUrl, isExtracting, extractionError, pc, closure,
           textToProcess, response, aiResponse, fetchLog, server >>

ui == << showForm, currentJob, showExtractionModal, jobDescriptionText,
         jobPostUrl, isExtracting, extractionError >>

NoResponse == [kind |-> "none"]

\* the backend between requests
Listening ==
  [pc |-> "listening", urlToFetch |-> EmptyStr, fetches |-> <<>>,
   upstream |-> NoResponse, sent |-> <<>>]
NoClosure  == [jobPostUrl |-> EmptyStr, jobDescriptionText |-> EmptyStr]

Init ==
  /\ showForm = FALSE
  /\ currentJob = NoJob
  /\ showExtractionModal = FALSE
  /\ jobDescriptionText = EmptyStr
  /\ jobPostUrl = EmptyStr
  /\ isExtracting = FALSE
  /\ extractionError = ""
  /\ pc = "idle"
  /\ closure = NoClosure
  /\ textToProcess = EmptyStr
  /\ response = NoResponse
  /\ aiResponse = NoResponse
  /\ fetchLog = <<>>
  /\ server = Listening

\* the frame of a handler that has returned is gone at the next event
Forget ==
  /\ pc' = "idle"
  /\ closure' = NoClosure
  /\ textToProcess' = EmptyStr
  /\ response' = NoResponse
  /\ aiResponse' = NoResponse
  /\ fetchLog' = <<>>

Running == pc \in {"proxy", "ai"}

\* both dialogs cover the page (fixed inset-0), so the controls of the page
\* are reached only when neither is shown
PageReachable == ~showForm /\ ~showExtractionModal

(***************************************************************************)
(* The controls                                                            *)
(***************************************************************************)

\* lines 438-441: "Add via AI Extraction"
OpenExtractionModal ==
  /\ PageReachable
  /\ extractionError' = ""
  /\ showExtractionModal' = TRUE
  /\ UNCHANGED << showForm, currentJob, jobDescriptionText, jobPostUrl, isExtracting >>
  /\ Forget
  /\ UNCHANGED server

\* line 769: the disabled attribute of Cancel
CancelDisabled == isExtracting

\* line 744: the disabled attribute of the URL input
UrlInputDisabled == isExtracting

\* line 759: the disabled attribute of the textarea
TextInputDisabled == isExtracting

\* lines 546-551: Cancel, disabled while isExtracting (line 769)
CloseExtractionModal ==
  /\ showExtractionModal /\ ~CancelDisabled
  /\ showExtractionModal' = FALSE
  /\ extractionError' = ""
  /\ jobDescriptionText' = EmptyStr
  /\ jobPostUrl' = EmptyStr
  /\ UNCHANGED << showForm, currentJob, isExtracting >>
  /\ Forget
  /\ UNCHANGED server

\* line 741, disabled while isExtracting (line 744)
SetJobPostUrl ==
  /\ showExtractionModal /\ ~UrlInputDisabled
  /\ \E u \in UrlStrings : jobPostUrl' = u
  /\ UNCHANGED << showForm, currentJob, showExtractionModal, jobDescriptionText,
                  isExtracting, extractionError >>
  /\ Forget
  /\ UNCHANGED server

\* line 756, disabled while isExtracting (line 759)
SetJobDescriptionText ==
  /\ showExtractionModal /\ ~TextInputDisabled
  /\ \E t \in PastedTexts : jobDescriptionText' = t
  /\ UNCHANGED << showForm, currentJob, showExtractionModal, jobPostUrl,
                  isExtracting, extractionError >>
  /\ Forget
  /\ UNCHANGED server

\* lines 140-144: "Add New Job" and the edit control of a row
handleOpenForm ==
  /\ PageReachable
  /\ \E job \in {NoJob, StoredJob} : currentJob' = job
  /\ showForm' = TRUE
  /\ extractionError' = ""
  /\ UNCHANGED << showExtractionModal, jobDescriptionText, jobPostUrl, isExtracting >>
  /\ Forget
  /\ UNCHANGED server

\* lines 146-151
handleCloseForm ==
  /\ showForm
  /\ showForm' = FALSE
  /\ currentJob' = NoJob
  /\ jobDescriptionText' = EmptyStr
  /\ jobPostUrl' = EmptyStr
  /\ UNCHANGED << showExtractionModal, isExtracting, extractionError >>
  /\ Forget
  /\ UNCHANGED server

\* lines 153-188: the store takes the job and the form closes, or the
\* store refuses and the form stays
handleSaveJob ==
  /\ showForm
  /\ \E saved \in BOOLEAN :
       IF saved
       THEN /\ showForm' = FALSE
            /\ currentJob' = NoJob
            /\ jobDescriptionText' = EmptyStr
            /\ jobPostUrl' = EmptyStr
            /\ UNCHANGED << showExtractionModal, isExtracting, extractionError >>
       ELSE UNCHANGED ui
  /\ Forget
  /\ UNCHANGED server

(***************************************************************************)
(* The run of handleExtractDetails                                         *)
(***************************************************************************)

\* line 777: the Extract control
ExtractDisabled ==
  isExtracting \/ (trim(jobPostUrl) = EmptyStr /\ trim(jobDescriptionText) = EmptyStr)

\* lines 216-305: the call, up to the first await or to the return of line 267
Begin ==
  LET st == beginExtract(jobPostUrl, jobDescriptionText)
  IN  /\ pc' = st.pc
      /\ isExtracting' = (st.pc # "done")
      /\ extractionError' = st.error
      /\ closure' = [jobPostUrl |-> jobPostUrl, jobDescriptionText |-> jobDescriptionText]
      /\ textToProcess' = st.text
      /\ response' = NoResponse
      /\ aiResponse' = NoResponse
      /\ fetchLog' = st.calls
      /\ UNCHANGED << showForm, currentJob, showExtractionModal, jobDescriptionText,
                      jobPostUrl, server >>

\* the Extract control is pressed
ClickExtract ==
  /\ showExtractionModal /\ ~ExtractDisabled
  /\ Begin

\* onExtract is called as the entry of the pipeline while the control is
\* disabled for want of input: line 777 keeps a press from getting here,
\* lines 264-267 answer a caller that does
InvokeExtract ==
  /\ showExtractionModal /\ ~isExtracting /\ ExtractDisabled
  /\ Begin

\* lines 227-305 with a catch block (lines 256-261) that does not call
\* setIsExtracting(false)
ProxyAnswer_staysBusy ==
  /\ pc = "proxy"
  /\ \E r \in ProxyOutcomes(fetchLog[Len(fetchLog)]) :
       LET st == afterProxy(r)
       IN  /\ response' = r
           /\ pc' = st.pc
           /\ isExtracting' = TRUE
           /\ extractionError' = IF st.error # "" THEN st.error ELSE extractionError
           /\ textToProcess' = st.text
           /\ fetchLog' = fetchLog \o st.calls
  /\ UNCHANGED << showForm, currentJob, showExtractionModal, jobDescriptionText,
                  jobPostUrl, closure, aiResponse, server >>

\* lines 227-305: the proxy fetch settles
ProxyAnswer ==
  /\ pc = "proxy"
  /\ \E r \in ProxyOutcomes(fetchLog[Len(fetchLog)]) :
       LET st == afterProxy(r)
       IN  /\ response' = r
           /\ pc' = st.pc
           /\ isExtracting' = (st.pc # "done")
           /\ extractionError' = IF st.error # "" THEN st.error ELSE extractionError
           /\ textToProcess' = st.text
           /\ fetchLog' = fetchLog \o st.calls
  /\ UNCHANGED << showForm, currentJob, showExtractionModal, jobDescriptionText,
                  jobPostUrl, closure, aiResponse, server >>

\* lines 301-350 with the inputs cleared however the run ends
ExtractionAnswer_clearsAlways ==
  /\ pc = "ai"
  /\ \E r \in AIOutcomes :
       LET st == afterExtraction(r, closure.jobPostUrl, textToProcess)
       IN  /\ aiResponse' = r
           /\ pc' = st.pc
           /\ isExtracting' = (st.pc # "done")
           /\ extractionError' = IF st.error # "" THEN st.error ELSE extractionError
           /\ fetchLog' = fetchLog \o st.calls
           /\ jobDescriptionText' = EmptyStr
           /\ jobPostUrl' = EmptyStr
           /\ IF st.draft # NoJob
              THEN /\ currentJob' = st.draft
                   /\ showExtractionModal' = FALSE
                   /\ showForm' = TRUE
              ELSE UNCHANGED << currentJob, showExtractionModal, showForm >>
  /\ UNCHANGED << closure, textToProcess, response, server >>

\* lines 301-350: the extraction fetch settles
ExtractionAnswer ==
  /\ pc = "ai"
  /\ \E r \in AIOutcomes :
       LET st == afterExtraction(r, closure.jobPostUrl, textToProcess)
       IN  /\ aiResponse' = r
           /\ pc' = st.pc
           /\ isExtracting' = (st.pc # "done")
           /\ extractionError' = IF st.error # "" THEN st.error ELSE extractionError
           /\ fetchLog' = fetchLog \o st.calls
           /\ IF st.draft # NoJob
              THEN /\ currentJob' = st.draft
                   /\ showExtractionModal' = FALSE
                   /\ showForm' = TRUE
                   /\ jobDescriptionText' = EmptyStr
                   /\ jobPostUrl' = EmptyStr
              ELSE UNCHANGED << currentJob, showExtractionModal, showForm,
                                jobDescriptionText, jobPostUrl >>
  /\ UNCHANGED << closure, textToProcess, response, server >>

Next ==
  \/ OpenExtractionModal
  \/ CloseExtractionModal
  \/ SetJobPostUrl
  \/ SetJobDescriptionText
  \/ handleOpenForm
  \/ handleCloseForm
  \/ handleSaveJob
  \/ ClickExtract
  \/ InvokeExtract
  \/ ProxyAnswer
  \/ ExtractionAnswer

Spec == Init /\ [][Next]_vars

(***************************************************************************)
(* Lines 237-251 on their own: the steps from a fetched page to the text   *)
(* to process, taken one at a time on pages of every shape                 *)
(***************************************************************************)

\* the longest text of a page, in runs
MaxTextRuns == 4

\* the longest page, in elements
MaxEls == 2

\* the runs the texts are made of
TextRuns == { [c |-> c, n |-> n] : c \in {"a", " ", "\n"}, n \in 1..2 }

\* texts of up to MaxTextRuns runs of letters, spaces and newlines
RawTexts ==
  { s \in UNION { [1..k -> TextRuns] : k \in 0..MaxTextRuns } :
      \A i \in 1..(Len(s) - 1) : s[i].c # s[i + 1].c }

\* texts around the threshold of line 246
ElementTexts ==
  { EmptyStr,
    Concat(Rep(" ", 1), Rep("\n", 1)),
    Rep("a", MinContentLength - 1),
    Rep("a", MinContentLength),
    Concat(Rep(" ", 30), Concat(Rep("a", 10), Rep(" ", 30))),
    Concat(Rep("\n", 1), Concat(Rep("b", MinContentLength), Rep(" ", 2))),
    Concat(Rep("b", 30), Concat(Rep(" ", 2), Rep("a", 30))) }

ElementTags == {"main", "article", "[role=main]", ".job-description", "nav", "p"}

\* the pages: one paragraph of any text, or up to MaxEls elements
Pages ==
  { << El("p", t) >> : t \in RawTexts }
  \cup UNION { [1..k -> { El(tag, t) : tag \in ElementTags, t \in ElementTexts }] :
                 k \in 0..MaxEls }

InitParse ==
  /\ showForm = FALSE
  /\ currentJob = NoJob
  /\ showExtractionModal = TRUE
  /\ jobDescriptionText = EmptyStr
  /\ jobPostUrl = Rep("u", 1)
  /\ isExtracting = TRUE
  /\ extractionError = ""
  /\ pc = "fetched"
  /\ closure = [jobPostUrl |-> Rep("u", 1), jobDescriptionText |-> EmptyStr]
  /\ textToProcess = EmptyStr
  /\ \E page \in Pages : response = Response(200, "OK", TextBody(page))
  /\ aiResponse = NoResponse
  /\ fetchLog = << proxyRequest(Rep("u", 1)) >>
  /\ server = Listening

\* lines 237-249: the page is parsed, stripped and its content selected
SelectStep ==
  /\ pc = "fetched"
  /\ textToProcess' = selectContent(removeNonContent(response.body.doc))
  /\ pc' = "selected"
  /\ UNCHANGED << ui, closure, response, aiResponse, fetchLog, server >>

\* line 251: the selected text is normalized
NormalizeStep ==
  /\ pc = "selected"
  /\ textToProcess' = normalizeFetched(textToProcess)
  /\ pc' = "normalized"
  /\ UNCHANGED << ui, closure, response, aiResponse, fetchLog, server >>

NextParse ==
  \/ SelectStep
  \/ NormalizeStep

SpecParse == InitParse /\ [][NextParse]_vars

(***************************************************************************)
(* The backend on its own: requests of /proxy from any client, one at a    *)
(* time                                                                    *)
(***************************************************************************)

\* req.query.url of the requests; the empty string is a request without one
QueryUrls == UrlStrings

UpstreamStatuses ==
  { [status |-> 200, statusText |-> "OK"],
    [status |-> 201, statusText |-> "Created"],
    [status |-> 204, statusText |-> "No Content"],
    [status |-> 299, statusText |-> ""],
    [status |-> 301, statusText |-> "Moved Permanently"],
    [status |-> 403, statusText |-> "Forbidden"],
    [status |-> 404, statusText |-> "Not Found"],
    [status |-> 500, statusText |-> "Internal Server Error"] }

\* what the fetch of line 29 and the read of line 41 come to
ServerUpstreams ==
  Upstreams
  \cup { Response(st.status, st.statusText, TextBody(d)) : st \in UpstreamStatuses, d \in Docs }
  \cup { Response(200, "OK", Unreadable("Premature close")),
         Response(404, "Not Found", Unreadable("Premature close")),
         Rejected("Only absolute URLs are supported") }

\* lines 19-29: a request arrives
ProxyRequest ==
  /\ server.pc \in {"listening", "sent"}
  /\ \E url \in QueryUrls :
       LET st == proxyReceive(url)
       IN  server' = [pc |-> IF st.sent # <<>> THEN "sent" ELSE "fetching",
                      urlToFetch |-> url,
                      fetches |-> st.fetches,
                      upstream |-> NoResponse,
                      sent |-> st.sent]
  /\ UNCHANGED << ui, pc, closure, textToProcess, response, aiResponse, fetchLog >>

\* lines 29-47: the upstream fetch settles
UpstreamAnswer ==
  /\ server.pc = "fetching"
  /\ \E upstream \in ServerUpstreams :
       server' = [server EXCEPT !.pc = "sent",
                                !.upstream = upstream,
                                !.sent = @ \o << proxySettle(upstream) >>]
  /\ UNCHANGED << ui, pc, closure, textToProcess, response, aiResponse, fetchLog >>

NextProxy ==
  \/ ProxyRequest
  \/ UpstreamAnswer

SpecProxy == Init /\ [][NextProxy]_vars

(***************************************************************************)
(* Properties                                                              *)
(***************************************************************************)

ProxyCalls == SelectSeq(fetchLog, LAMBDA r : r.to = "proxy")
AICalls    == SelectSeq(fetchLog, LAMBDA r : r.to = "ai")

Blank(s) == trim(s) = EmptyStr

\* a run has started and the URL it sees is not blank
OnUrlPath == pc # "idle" /\ ~Blank(closure.jobPostUrl)

\* a run has started, the URL it sees is blank and the pasted text is not
OnTextPath == pc # "idle" /\ Blank(closure.jobPostUrl) /\ ~Blank(closure.jobDescriptionText)

ProxyFailed ==
  \/ response.kind = "rejected"
  \/ response.kind = "response" /\ ~Ok(response.status)

ProxySucceeded == response.kind = "response" /\ Ok(response.status)

NoDraft == currentJob = NoJob /\ ~showForm

\* s is a prefix of t
IsPrefix(s, t) ==
  \/ s = <<>>
  \/ /\ Len(s) <= Len(t)
     /\ \A i \in 1..(Len(s) - 1) : s[i] = t[i]
     /\ s[Len(s)].c = t[Len(s)].c
     /\ s[Len(s)].n <= t[Len(s)].n

Min(a, b) == IF a <= b THEN a ELSE b

\* the messages of a failed proxy fetch
SourceFetchMsgs(r) ==
  IF r.kind = "rejected"
  THEN { UrlErrorMsg(r.message) }
  ELSE { UrlErrorMsg(ProxyHttpMsg(d, r.status)) :
           d \in ({r.statusText} \cup (IF r.body.json THEN {r.body.details, r.body.error} ELSE {}))
                 \ {""} }

\* C1: a run whose URL is not blank takes the URL path only: its first
\* request is the proxy request for exactly the URL typed, and any text it
\* submits to extraction is made from the proxy's answer, whatever was
\* pasted; the pasted text is submitted only by a run whose URL is blank.
C1_UrlPathExclusive ==
  /\ OnUrlPath =>
       /\ fetchLog # <<>>
       /\ fetchLog[1].to = "proxy"
       /\ decodeQuery(fetchLog[1].url) = closure.jobPostUrl
       /\ \A i \in 1..Len(AICalls) :
            /\ ProxySucceeded
            /\ IsPrefix(AICalls[i].text, textFromHtml(response.body.doc))
  /\ (pc # "idle" /\ ProxyCalls = <<>> /\ AICalls # <<>>) =>
       /\ Blank(closure.jobPostUrl)
       /\ IsPrefix(AICalls[1].text, trim(closure.jobDescriptionText))

\* a run on the URL path that reached the end with a padded URL and with
\* pasted text that differs from the page
C1_Witness ==
  /\ pc = "done" /\ OnUrlPath
  /\ closure.jobPostUrl # trim(closure.jobPostUrl)
  /\ closure.jobDescriptionText = Rep("b", 64)
  /\ Len(AICalls) = 1 /\ AICalls[1].text = Rep("a", 60)

\* C2: a run that sees a blank URL and a blank pasted text ends with the
\* no-input message and issues no request.
C2_NoInputNoNetwork ==
  (pc # "idle" /\ Blank(closure.jobPostUrl) /\ Blank(closure.jobDescriptionText)) =>
     /\ pc = "done"
     /\ extractionError = NoInputMsg
     /\ fetchLog = <<>>
     /\ response = NoResponse /\ aiResponse = NoResponse
     /\ ~isExtracting

\* a run ended for want of input, the fields holding white space only
C2_Witness ==
  /\ pc = "done"
  /\ closure.jobPostUrl = Rep(" ", 1)
  /\ closure.jobDescriptionText = Concat(Rep("\n", 1), Rep(" ", 2))
  /\ extractionError = NoInputMsg

\* C3: when the proxy fetch fails (no answer, or an answer that is not
\* 2xx) the run is over with a source-fetch message, it issues no
\* extraction request and produces no draft, also when text was pasted.
C3_FetchFailureStops ==
  ProxyFailed =>
     /\ pc = "done"
     /\ AICalls = <<>>
     /\ aiResponse = NoResponse
     /\ extractionError \in SourceFetchMsgs(response)
     /\ NoDraft
     /\ ~isExtracting

\* the proxy answered 404 to a run that also had pasted text
C3_Witness ==
  /\ pc = "done"
  /\ response.kind = "response" /\ response.status = 404
  /\ ~Blank(closure.jobDescriptionText)

\* C4: when the proxy answers 2xx and the text made from the body is
\* blank, the run is over with the empty-content message, which is not a
\* source-fetch message, and no extraction request is issued.
C4_EmptyContent ==
  (ProxySucceeded /\ Blank(textFromHtml(response.body.doc))) =>
     /\ pc = "done"
     /\ extractionError = UrlErrorMsg(EmptyContentMsg)
     /\ \A u \in Upstreams \cup {Response(502, "Bad Gateway", JsonError("", ""))} :
          (u.kind = "rejected" \/ ~Ok(u.status)) => extractionError \notin SourceFetchMsgs(u)
     /\ AICalls = <<>>
     /\ aiResponse = NoResponse
     /\ NoDraft

\* a page that has text, all of it in a removed element
C4_Witness ==
  /\ pc = "done"
  /\ ProxySucceeded
  /\ response.body.doc = << El("script", Rep("a", 60)) >>
  /\ extractionError = UrlErrorMsg(EmptyContentMsg)

\* the text of the run before truncation: made from the page on the URL
\* path, the trimmed pasted text otherwise
NormalizedText ==
  IF OnUrlPath THEN textFromHtml(response.body.doc) ELSE trim(closure.jobDescriptionText)

\* C5: the text of every extraction request is the prefix of the
\* normalized text of length min(length, 28000).
C5_TruncatedPrefix ==
  \A i \in 1..Len(AICalls) :
     /\ IsPrefix(AICalls[i].text, NormalizedText)
     /\ length(AICalls[i].text) = Min(length(NormalizedText), Cap)

\* a text of 40000 characters was submitted as its first 28000
C5_Witness ==
  /\ AICalls # <<>>
  /\ length(NormalizedText) = 40000
  /\ AICalls[1].text = Concat(Rep("a", 20000), Rep("b", 8000))

\* the service answered 2xx with a JSON body that is not null
AISucceeded ==
  /\ aiResponse.kind = "response" /\ Ok(aiResponse.status)
  /\ aiResponse.body.json /\ ~aiResponse.body.isNull

\* the text part of the first candidate of the answer is text
EmbeddedTextIs(text) == AISucceeded /\ candidateText(aiResponse.body) = text

\* the draft the form holds after a run that saw url and extracted the
\* four properties given (strings; "" for a property filled by default)
DraftOf(companyName, role, location, notes, url) ==
  [companyName     |-> JsString(companyName),
   role            |-> JsString(role),
   location        |-> JsString(location),
   notes           |-> JsString(notes),
   dateApplied     |-> Today,
   status          |-> "Saved (Not Applied)",
   link            |-> trim(url),
   platformPosted  |-> "",
   referralOptions |-> "",
   personPosted    |-> ""]

\* C6: when the service answers 2xx with a well-formed envelope whose text
\* is "{invalid json", the run is over with the invalid-JSON message and
\* no draft: currentJob and showForm are as before the run.
C6_InvalidJsonNoDraft ==
  EmbeddedTextIs("{invalid json") =>
     /\ pc = "done"
     /\ extractionError = AIErrorMsg(InvalidJsonMsg)
     /\ NoDraft
     /\ showExtractionModal

\* the run of a pasted text ended on "{invalid json"
C6_Witness ==
  /\ pc = "done" /\ OnTextPath
  /\ EmbeddedTextIs("{invalid json")
  /\ extractionError = AIErrorMsg(InvalidJsonMsg)

\* the texts that parse as JSON and do not match the declared schema
OffSchemaTexts == {TextNumber, TextString, TextArray, TextEmptyObj, TextNoRole}

\* C7 as claimed: when the embedded text parses as JSON and does not match
\* the schema, the run is over with the invalid-JSON message and no draft.
C7_OffSchemaIsHardFailure ==
  (\E t \in OffSchemaTexts : EmbeddedTextIs(t)) =>
     /\ pc = "done"
     /\ extractionError = AIErrorMsg(InvalidJsonMsg)
     /\ NoDraft

\* C7 as amended: only text that does not parse gives the invalid-JSON
\* message.  Text that parses to null fails with the message of the
\* property read of null and no draft; text that parses to a number, a
\* string, an array or an object lacking companyName or role succeeds with
\* a draft in which every property not extracted is the empty string.
C7_OffSchemaIsDefaulted ==
  /\ (pc = "done" /\ extractionError = AIErrorMsg(InvalidJsonMsg)) =>
        EmbeddedTextIs(TextInvalid)
  /\ EmbeddedTextIs(TextNull) =>
        /\ pc = "done" /\ NoDraft
        /\ extractionError = AIErrorMsg(NullReadMsg)
  /\ (\E t \in {TextNumber, TextString, TextArray, TextEmptyObj} : EmbeddedTextIs(t)) =>
        /\ pc = "done" /\ extractionError = "" /\ showForm
        /\ currentJob = DraftOf("", "", "", "", closure.jobPostUrl)
  /\ EmbeddedTextIs(TextNoRole) =>
        /\ pc = "done" /\ extractionError = "" /\ showForm
        /\ currentJob = DraftOf("Acme Corp", "", "", "", closure.jobPostUrl)

\* the form holds a draft made of defaults after the service generated 42
C7_Witness ==
  /\ pc = "done"
  /\ EmbeddedTextIs(TextNumber)
  /\ showForm
  /\ currentJob.companyName = JsString("") /\ currentJob.role = JsString("")

FullSuccess ==
  /\ currentJob # NoJob /\ currentJob.status = JobStatus.SAVED
  /\ showForm /\ ~showExtractionModal
  /\ extractionError = ""

\* the run ended in failure: a message, no draft
FullFailure == extractionError # "" /\ NoDraft

\* C9: a run that has ended has either fully succeeded or fully failed,
\* never both and never neither.
C9_SuccessOrFailure ==
  pc = "done" => /\ FullSuccess \/ FullFailure
                 /\ ~(FullSuccess /\ FullFailure)

\* a run on the URL path failed at the second request
C9_Witness ==
  /\ pc = "done" /\ OnUrlPath
  /\ Len(fetchLog) = 2
  /\ aiResponse.kind = "response" /\ aiResponse.status = 429
  /\ FullFailure

\* C10: a run issues at most one proxy request and at most one extraction
\* request, the proxy request first; on the URL path the extraction
\* request is issued only once the proxy has answered 2xx with text that
\* is not blank; on the pasted-text path no proxy request is issued.
C10_SinglePassOrdered ==
  /\ Len(ProxyCalls) <= 1
  /\ Len(AICalls) <= 1
  /\ \A i, j \in 1..Len(fetchLog) :
        (fetchLog[i].to = "proxy" /\ fetchLog[j].to = "ai") => i < j
  /\ (OnUrlPath /\ AICalls # <<>>) =>
        /\ pc # "proxy"
        /\ ProxySucceeded
        /\ ~Blank(textFromHtml(response.body.doc))
  /\ OnTextPath => ProxyCalls = <<>>
  /\ pc = "proxy" => AICalls = <<>>

\* a run on the URL path ended after a failure of the second request
C10_Witness ==
  /\ pc = "done" /\ OnUrlPath
  /\ aiResponse.kind = "rejected"
  /\ Len(ProxyCalls) = 1 /\ Len(AICalls) = 1

\* the run has ended with a draft in the form
Succeeded == pc = "done" /\ currentJob # NoJob /\ showForm

\* the four extracted properties the texts of the service stand for, as
\* <<companyName, role, location, summary>>; "" where the text has no such
\* property or has null for it
ExtractedFields(text) ==
  CASE text = TextFull    -> << "Acme Corp", "Senior Engineer", "Remote",
                                "Build distributed systems." >>
    [] text = TextMinimal -> << "Acme Corp", "Senior Engineer", "", "" >>
    [] text = TextNullLoc -> << "", "Senior Engineer", "", "" >>
    [] text = TextNoRole  -> << "Acme Corp", "", "", "" >>
    [] OTHER              -> << "", "", "", "" >>

\* C11: the draft of a successful run is the mapping of the extracted
\* properties: companyName, role and location are the extracted values or
\* the empty string, notes is the summary or the empty string, status is
\* "Saved (Not Applied)", and platformPosted, referralOptions and
\* personPosted are empty.
C11_DraftMapping ==
  Succeeded =>
     LET f == ExtractedFields(candidateText(aiResponse.body))
     IN  /\ AISucceeded
         /\ currentJob.companyName = JsString(f[1])
         /\ currentJob.role = JsString(f[2])
         /\ currentJob.location = JsString(f[3])
         /\ currentJob.notes = JsString(f[4])
         /\ currentJob.status = "Saved (Not Applied)"
         /\ currentJob.status # "Applied"
         /\ currentJob.platformPosted = ""
         /\ currentJob.referralOptions = ""
         /\ currentJob.personPosted = ""

\* the draft of Scenario A: pasted text, all four properties extracted
C11_Witness ==
  /\ Succeeded /\ OnTextPath
  /\ EmbeddedTextIs(TextFull)
  /\ currentJob.notes = JsString("Build distributed systems.")
  /\ currentJob.status = "Saved (Not Applied)"

\* C12 as claimed: the link of the draft is the URL the run saw when it
\* took the URL path, and the empty string when it took the pasted text.
C12_LinkIsSourceUrl ==
  Succeeded =>
     /\ OnUrlPath => currentJob.link = closure.jobPostUrl
     /\ OnTextPath => currentJob.link = EmptyStr

\* C12 as amended: the link of the draft is the URL the run saw without
\* its leading and trailing white space when it took the URL path (the
\* URL itself when it has none), and the empty string when it took the
\* pasted text.
C12_LinkIsTrimmedUrl ==
  Succeeded =>
     /\ currentJob.link = trimEnd(trimStart(closure.jobPostUrl))
     /\ OnUrlPath =>
          /\ currentJob.link # EmptyStr
          /\ IsPrefix(currentJob.link, trimStart(closure.jobPostUrl))
          /\ (closure.jobPostUrl = trim(closure.jobPostUrl)) =>
                currentJob.link = closure.jobPostUrl
     /\ OnTextPath => currentJob.link = EmptyStr

\* a draft made from the page of a URL typed with a leading space
C12_Witness ==
  /\ Succeeded /\ OnUrlPath
  /\ closure.jobPostUrl = Concat(Rep(" ", 1), Rep("u", 1))
  /\ currentJob.link = Rep("u", 1)

\* s has two white space characters in a row
HasWhitespaceRun(s) ==
  \E i \in 1..Len(s) :
     /\ IsWhitespace(s[i].c)
     /\ s[i].n >= 2 \/ (i < Len(s) /\ IsWhitespace(s[i + 1].c))

StartsWithWhitespace(s) == s # <<>> /\ IsWhitespace(s[1].c)
EndsWithWhitespace(s)   == s # <<>> /\ IsWhitespace(s[Len(s)].c)

\* C13 as claimed: on both paths the text submitted to extraction has no
\* two white space characters in a row, no leading or trailing white
\* space, and at most 28000 characters.
C13_SubmittedIsNormalized ==
  \A i \in 1..Len(AICalls) :
     /\ ~HasWhitespaceRun(AICalls[i].text)
     /\ ~StartsWithWhitespace(AICalls[i].text)
     /\ ~EndsWithWhitespace(AICalls[i].text)
     /\ length(AICalls[i].text) <= Cap

\* C13 as amended: on both paths the text submitted has at most 28000
\* characters and no leading white space, and no trailing white space
\* unless it was cut at the cap; on the URL path it has no two white space
\* characters in a row; on the pasted-text path it is the trimmed text cut
\* at the cap, with the white space inside it as pasted.
C13_SubmittedTextShape ==
  \A i \in 1..Len(AICalls) :
     /\ length(AICalls[i].text) <= Cap
     /\ AICalls[i].text # EmptyStr
     /\ ~StartsWithWhitespace(AICalls[i].text)
     /\ EndsWithWhitespace(AICalls[i].text) =>
           /\ length(AICalls[i].text) = Cap
           /\ length(NormalizedText) > Cap
     /\ OnUrlPath => ~HasWhitespaceRun(AICalls[i].text)
     /\ OnTextPath =>
           /\ IsPrefix(AICalls[i].text, trimStart(closure.jobDescriptionText))
           /\ length(AICalls[i].text)
                = Min(length(trimEnd(trimStart(closure.jobDescriptionText))), Cap)

\* the page was cut at the cap right after a space
C13_Witness ==
  /\ OnUrlPath /\ AICalls # <<>>
  /\ AICalls[1].text = Concat(Rep("a", Cap - 1), Rep(" ", 1))

\* the page of the run, its elements left by line 241, and the landmarks
\* among them in document order
PageOfRun     == response.body.doc
KeptOfRun     == SelectSeq(PageOfRun, LAMBDA el : el.tag \notin RemovedTags)
LandmarksOfRun == SelectSeq(KeptOfRun, LAMBDA el : el.tag \in LandmarkTags)

\* C14: the text line 251 makes has no two white space characters in a
\* row and no leading or trailing white space, whatever text it is given.
C14_NormalizedShape ==
  pc = "normalized" =>
     /\ ~HasWhitespaceRun(textToProcess)
     /\ ~StartsWithWhitespace(textToProcess)
     /\ ~EndsWithWhitespace(textToProcess)

\* a text with white space at both ends, two spaces and a newline before a space
C14_Witness ==
  /\ pc = "normalized"
  /\ PageOfRun = << El("p", << [c |-> " ", n |-> 2], [c |-> "a", n |-> 1],
                               [c |-> "\n", n |-> 1], [c |-> " ", n |-> 1] >>) >>
  /\ textToProcess = Rep("a", 1)

\* the text of the whole body once line 241 has removed its elements
BodyTextOfRun == bodyInnerText(KeptOfRun)

\* C18: when the selected landmark's text, trimmed, is empty or shorter
\* than 50 characters the text of the whole body is used instead; when it
\* has 50 characters or more the landmark's text is used; when there is no
\* landmark the text of the whole body is used.
C18_Escalation ==
  pc = "selected" =>
     IF LandmarksOfRun = <<>>
     THEN textToProcess = BodyTextOfRun
     ELSE LET landmark == querySelector(KeptOfRun)
          IN  IF length(trimEnd(trimStart(landmark.text))) < 50
              THEN textToProcess = BodyTextOfRun
              ELSE textToProcess = landmark.text

\* a landmark of 70 characters, 10 of them not white space, gave way to
\* the text of the body
C18_Witness ==
  /\ pc = "selected"
  /\ PageOfRun = << El("main", Concat(Rep(" ", 30), Concat(Rep("a", 10), Rep(" ", 30)))),
                    El("p", Rep("a", 50)) >>
  /\ textToProcess = Concat(Rep(" ", 30), Concat(Rep("a", 10),
                       Concat(Rep(" ", 30), Rep("a", 50))))

\* the landmarks of the page whose selector comes first in the list
FirstRanked ==
  { i \in 1..Len(LandmarksOfRun) :
      \A j \in 1..Len(LandmarksOfRun) :
         SelectorRank(LandmarksOfRun[i].tag) <= SelectorRank(LandmarksOfRun[j].tag) }

\* C19 as claimed: of the landmarks of a page the one whose kind comes
\* first in the list is selected, wherever it stands in the page.
C19_SelectorOrder ==
  (pc = "selected" /\ LandmarksOfRun # <<>>) =>
     \E i \in FirstRanked : querySelector(KeptOfRun) = LandmarksOfRun[i]

\* C19 as amended: of the landmarks of a page (left by the removal of line
\* 241) the first in document order is selected, whatever its kind; the
\* text of the whole body is used when there is no landmark, or when the
\* text of the selected landmark, trimmed, is shorter than 50 characters.
C19_DocumentOrder ==
  pc = "selected" =>
     IF LandmarksOfRun = <<>>
     THEN textToProcess = BodyTextOfRun
     ELSE /\ querySelector(KeptOfRun) = LandmarksOfRun[1]
          /\ textToProcess \in {LandmarksOfRun[1].text, BodyTextOfRun}
          /\ textToProcess # LandmarksOfRun[1].text =>
                length(trim(LandmarksOfRun[1].text)) < 50

\* an article before a main: the text of the article is used
C19_Witness ==
  /\ pc = "selected"
  /\ PageOfRun = << El("article", Rep("a", 50)),
                    El("main", Concat(Rep("b", 30), Concat(Rep(" ", 2), Rep("a", 30)))) >>
  /\ textToProcess = Rep("a", 50)

\* the string part occurs in the string whole
Contains(whole, part) ==
  \E i \in 1..(Len(whole) - Len(part) + 1) : SubSeq(whole, i, i + Len(part) - 1) = part

\* the detail of an answer of the proxy that is not 2xx: the details of
\* its JSON body, else the error of its JSON body, else its status text
ProxyDetail(r) ==
  IF r.body.json /\ r.body.details # "" THEN r.body.details
  ELSE IF r.body.json /\ r.body.error # "" THEN r.body.error
  ELSE r.statusText

\* C15: an answer of the proxy that is not 2xx, whatever its body, ends
\* the run with the HTTP failure message, which carries the status and
\* the detail: details of the JSON body, else its error, else the status
\* text when the body is not JSON or has neither.
C15_HttpErrorDetail ==
  (response.kind = "response" /\ ~Ok(response.status)) =>
     /\ pc = "done"
     /\ extractionError =
          "Error processing URL: Failed to fetch URL via proxy: "
            \o ProxyDetail(response)
            \o " (Status: " \o ToString(response.status) \o ")"
            \o ". Try pasting text or check the URL/proxy."
     /\ Contains(extractionError, ToString(response.status))
     /\ Contains(extractionError, ProxyDetail(response))

\* the backend answered 500 for a posting that answered 404: the message
\* has the details of the body, not its error
C15_Witness ==
  /\ pc = "done"
  /\ response.kind = "response" /\ response.status = 500
  /\ response.body.details = "Failed to fetch: 404 Not Found"
  /\ response.body.error = "Failed to fetch the provided URL."
  /\ Contains(extractionError, "Failed to fetch: 404 Not Found (Status: 500)")

\* the backend has answered the request it was handling
Answered == server.pc = "sent"

Answer == server.sent[1]

\* the upstream fetch of the request came to a response of status 2xx
Upstream2xx == server.upstream.kind = "response" /\ Ok(server.upstream.status)

\* the body is a JSON object with a string error field
JsonErrorBody(body) == body.json /\ body.error # ""

\* C16 as stated: one response to every request; 200 with the upstream
\* body when the upstream status is 2xx; 400 without an upstream fetch
\* when there is no url; in every other case, an upstream exception
\* included, 500 with a JSON error body whose details contain the
\* upstream status.
C16_DetailsHaveUpstreamStatus ==
  /\ ~Answered => server.sent = <<>>
  /\ Answered =>
       /\ Len(server.sent) = 1
       /\ IF server.urlToFetch = EmptyStr
          THEN /\ Answer.status = 400
               /\ JsonErrorBody(Answer.body)
               /\ server.fetches = <<>>
          ELSE IF Upstream2xx
          THEN /\ Answer.status = 200
               /\ Answer.body = server.upstream.body
          ELSE /\ Answer.status = 500
               /\ JsonErrorBody(Answer.body)
               /\ server.upstream.kind = "response"
               /\ Contains(Answer.body.details, ToString(server.upstream.status))

\* the exception of the upstream fetch or of the read of its body
UpstreamException ==
  IF server.upstream.kind = "rejected"
  THEN server.upstream.message
  ELSE server.upstream.body.unreadable

\* C16, amended: one response to every request. Without a url: 400 with a
\* JSON error body and no upstream fetch. Otherwise one upstream fetch of
\* that url with the browser User-Agent, and: 200 with the upstream body
\* when the upstream status is 2xx and the body is read; 500 with a JSON
\* error body whose details hold the upstream status and status text when
\* the upstream status is not 2xx; 500 with a JSON error body whose
\* details are the exception's message, which holds no status, when the
\* fetch or the read of the body throws.
C16_EndpointAnswers ==
  /\ ~Answered => server.sent = <<>>
  /\ Answered =>
       /\ Len(server.sent) = 1
       /\ IF server.urlToFetch = EmptyStr
          THEN /\ Answer.status = 400
               /\ JsonErrorBody(Answer.body)
               /\ Answer.body.details = ""
               /\ server.fetches = <<>>
          ELSE /\ server.fetches =
                    << [url |-> server.urlToFetch, userAgent |-> BrowserUserAgent] >>
               /\ IF Upstream2xx /\ Readable(server.upstream.body)
                  THEN /\ Answer.status = 200
                       /\ Answer.body = server.upstream.body
                  ELSE /\ Answer.status = 500
                       /\ JsonErrorBody(Answer.body)
                       /\ IF server.upstream.kind = "response" /\ ~Upstream2xx
                          THEN /\ Contains(Answer.body.details,
                                           ToString(server.upstream.status))
                               /\ Answer.body.details =
                                    "Failed to fetch: " \o ToString(server.upstream.status)
                                      \o " " \o server.upstream.statusText
                          ELSE Answer.body.details = UpstreamException

\* the upstream fetch threw, and the answer is 500 with the message of
\* the exception as its details
C16_Witness ==
  /\ Answered
  /\ server.upstream = Rejected("Only absolute URLs are supported")
  /\ Answer.status = 500
  /\ Answer.body.error = "Failed to fetch the provided URL."
  /\ Answer.body.details = "Only absolute URLs are supported"

\* the run ended in failure
RunFailed == pc = "done" /\ extractionError # ""

\* the message of the SyntaxError JSON.parse throws on TextInvalid
ParseErrorText == "Unexpected token i in JSON at position 1"

\* C17: the message of a failed run carries the originating detail: the
\* HTTP status when the proxy or the extraction service answered with a
\* status that is not 2xx, whatever the body; the parser's error text
\* when the embedded text is not valid JSON.
C17_DetailSurfaced ==
  RunFailed =>
    /\ (response.kind = "response" /\ ~Ok(response.status)) =>
          Contains(extractionError, ToString(response.status))
    /\ (aiResponse.kind = "response" /\ ~Ok(aiResponse.status)) =>
          Contains(extractionError, ToString(aiResponse.status))
    /\ EmbeddedTextIs(TextInvalid) =>
          Contains(extractionError, ParseErrorText)

\* the part of C17 on the status of the extraction service alone
C17_ServiceStatusSurfaced ==
  (RunFailed /\ aiResponse.kind = "response" /\ ~Ok(aiResponse.status)) =>
     Contains(extractionError, ToString(aiResponse.status))

\* C20: a step of a run that does not end it in success leaves the URL
\* input, the pasted text, the current job, the form flag and the modal
\* flag as they were, whichever failure it ends in, so that at the end of
\* a failed run the inputs are those the run started with; the step that
\* ends a run in success clears both inputs, closes the modal and opens
\* the form with the draft.
C20_FailedRunFrame ==
  [][ pc' # "idle" =>
        IF pc' = "done" /\ extractionError' = ""
        THEN /\ jobPostUrl' = EmptyStr
             /\ jobDescriptionText' = EmptyStr
             /\ ~showExtractionModal'
             /\ showForm'
             /\ currentJob' # NoJob
        ELSE /\ UNCHANGED << jobPostUrl, jobDescriptionText, currentJob,
                             showForm, showExtractionModal >>
             /\ pc' = "done" =>
                  /\ extractionError' # ""
                  /\ jobPostUrl' = closure'.jobPostUrl
                  /\ jobDescriptionText' = closure'.jobDescriptionText
                  /\ showExtractionModal'
                  /\ currentJob' = NoJob /\ ~showForm' ]_vars

\* a run on the URL path, with text pasted too, failed at the answer of
\* the service: both inputs are as typed and the modal is still open
C20_Witness ==
  /\ RunFailed
  /\ aiResponse.kind = "response"
  /\ jobPostUrl = Rep("u", 1)
  /\ jobDescriptionText = Rep("b", 64)
  /\ closure = [jobPostUrl |-> Rep("u", 1), jobDescriptionText |-> Rep("b", 64)]
  /\ showExtractionModal /\ NoDraft

\* the busy flag is up exactly while a run is in flight, and down once
\* the run has ended, however it ended
BusyWhileRunning ==
  /\ isExtracting <=> Running
  /\ pc = "done" => ~isExtracting
  /\ isExtracting => showExtractionModal

\* while the busy flag is up the run in flight is the only one: no step
\* starts another run or handles another event, its requests are only
\* added to, and the inputs stay as they are until the step that ends it
OneRunInFlight ==
  isExtracting =>
    /\ pc' # "idle"
    /\ closure' = closure
    /\ Len(fetchLog') >= Len(fetchLog)
    /\ SubSeq(fetchLog', 1, Len(fetchLog)) = fetchLog
    /\ isExtracting' => UNCHANGED << jobPostUrl, jobDescriptionText >>

\* after a run that ended with the modal still open, Cancel and both
\* inputs work, and so does Extract when the run had an input
ControlsBackAfterRun ==
  (pc = "done" /\ showExtractionModal) =>
     /\ ~CancelDisabled /\ ~UrlInputDisabled /\ ~TextInputDisabled
     /\ (~Blank(closure.jobPostUrl) \/ ~Blank(closure.jobDescriptionText))
          => ~ExtractDisabled

C21_ExtractDisabledIdle ==
  showExtractionModal /\ ~isExtracting /\ ExtractDisabled

====
